---- MODULE Spec2Model ----
(***************************************************************************)
(* Model of the Autocomplete form element (src/src/elements/Autocomplete.tsx,*)
(* the Popper revision, lines 355-762) together with the behaviour of the   *)
(* headless useAutocomplete hook it configures at lines 582-610.            *)
(*                                                                          *)
(* One action is one user gesture.  A gesture is a sequence of DOM events;  *)
(* every handler of one DOM event reads the state of the last render (its   *)
(* closure) and queues state updates, which are committed, and followed by  *)
(* the hook's value/input synchronisation effect, before the next event.    *)
(***************************************************************************)
EXTENDS Integers, Sequences, FiniteSets, TLC

VARIABLES
    props,          \* the configuration handed in by the host (fixed per run)
    value,          \* FieldValue, owned by the host, replaced through setValue
    open,           \* React state `open`
    input,          \* React state `input` (InputText)
    focused,        \* hook state `focused`
    inputPristine,  \* hook state `inputPristine`
    emitted,        \* events raised through raiseEvent by the last gesture
    proposed,       \* values handed to setValue by the last gesture
    lastAct,        \* the last gesture and its arguments
    portal          \* the anchor's ancestor chain and the portal-container effect

widgetVars == <<props, value, open, input, focused, inputPristine, emitted, proposed, lastAct>>

vars == <<props, value, open, input, focused, inputPristine, emitted, proposed, lastAct, portal>>

(* ------------------------------ bounds --------------------------------- *)

\* longest multi-select selection the model lets a gesture build
MaxSel == 2

\* longest chain of elements from the anchor up to the document element
MaxDepth == 3

(* ------------------------- texts and primitives ------------------------ *)

\* A text is a sequence of one-character strings.
Bridge == <<"B", "r", "i", "d", "g", "e">>
Road == <<"R", "o", "a", "d">>
Tunnel == <<"T", "u", "n", "n", "e", "l">>
Seven == <<"7">>

\* type Primitive = string | number: a number is kept as its decimal text
Str(s) == [num |-> FALSE, s |-> s]
Num(s) == [num |-> TRUE, s |-> s]

\* getOptionLabel: (o) => String(o)
getOptionLabel(o) == o.s

toLowerCaseChar(c) ==
    CASE c = "B" -> "b"
      [] c = "R" -> "r"
      [] c = "T" -> "t"
      [] OTHER -> c

toLowerCase(s) == [i \in DOMAIN s |-> toLowerCaseChar(s[i])]

\* String.prototype.indexOf(needle) > -1
Contains(hay, needle) ==
    \E i \in 0 .. (Len(hay) - Len(needle)) :
        SubSeq(hay, i + 1, i + Len(needle)) = needle

\* the options prop
options == <<Str(Bridge), Str(Road), Str(Tunnel)>>

\* texts the user may leave in the input box by typing or pasting
TypedTexts == {<<>>, <<"r">>, Seven}

(* ------------------------------ FieldValue ----------------------------- *)

\* Primitive | Primitive[] | null
Null == [arr |-> FALSE, items |-> <<>>]
Scalar(p) == [arr |-> FALSE, items |-> <<p>>]
Arr(s) == [arr |-> TRUE, items |-> s]

IsArray(v) == v.arr

\* values the host may hand in when the element is mounted
HostValues ==
    {Null, Scalar(Num(Seven)), Arr(<<>>),
     Arr(<<Str(Road), Str(Bridge)>>)}

\* hookValue with the scalar handed through unwrapped in multi mode
hookValue_noWrap(v, multiple) ==
    IF multiple
    THEN IF IsArray(v) THEN v
         ELSE IF v = Null THEN Arr(<<>>)
         ELSE v
    ELSE IF IsArray(v)
         THEN (IF Len(v.items) > 0 THEN Scalar(v.items[1]) ELSE Null)
         ELSE v

\* hookValue narrowing an array to its last element in single mode
hookValue_last(v, multiple) ==
    IF multiple
    THEN IF IsArray(v) THEN v
         ELSE IF v = Null THEN Arr(<<>>)
         ELSE Arr(<<v.items[1]>>)
    ELSE IF IsArray(v)
         THEN (IF Len(v.items) > 0 THEN Scalar(v.items[Len(v.items)]) ELSE Null)
         ELSE v

\* the value adapter
hookValue(v, multiple) ==
    IF multiple
    THEN IF IsArray(v) THEN v
         ELSE IF v = Null THEN Arr(<<>>)
         ELSE Arr(<<v.items[1]>>)
    ELSE IF IsArray(v)
         THEN (IF Len(v.items) > 0 THEN Scalar(v.items[1]) ELSE Null)
         ELSE v

(* ------------------------------ configuration -------------------------- *)

\* clearOnBlur is left unset or set against the hook's default for it
PropsSet ==
    {c \in [multiple : BOOLEAN, freeSolo : BOOLEAN, openOnFocus : BOOLEAN,
            clearable : BOOLEAN, disabled : BOOLEAN, readOnly : BOOLEAN,
            clearOnBlur : {"unset", "true", "false"}] :
        \/ c.clearOnBlur = "unset"
        \/ c.clearOnBlur = "true" /\ c.freeSolo
        \/ c.clearOnBlur = "false" /\ ~c.freeSolo}

\* the caller's getOptionDisabled predicate: it disables Road
getOptionDisabled(o) == o = Str(Road)

\* getOptionDisabled?.(opt) ?? false, as evaluated by the option rows
disabledOpt(o) == getOptionDisabled(o)

\* readOnlyOrDisabled that forgets readOnly
readOnlyOrDisabled_disabledOnly == props.disabled

readOnlyOrDisabled == props.disabled \/ props.readOnly

\* the clear button rendered whatever the disabled and readOnly flags
clearButtonRendered_always == props.clearable

\* {clearable && !readOnlyOrDisabled && <button ...>}: the clear button exists
clearButtonRendered == props.clearable /\ ~readOnlyOrDisabled

\* {multiple && ... uaValue.map(...)} with {!readOnlyOrDisabled && <button>}:
\* the chips carry their removal buttons
tagDeleteRendered == props.multiple /\ ~readOnlyOrDisabled

\* the hook's default: clearOnBlur = !props.freeSolo
clearOnBlur ==
    IF props.clearOnBlur = "unset" THEN ~props.freeSolo
    ELSE props.clearOnBlur = "true"

(* ------------------ the themed portal container ------------------------ *)

\* A custom property on an element: not declared, or declared with a text.
NoDecl == [has |-> FALSE, text |-> <<>>]
Decl(t) == [has |-> TRUE, text |-> t]
Blank == <<" ">>
White == <<"#", "f", "f", "f">>
StyleValues == {NoDecl, Decl(Blank), Decl(White)}

\* An element declares, or not, --calcite-ui-foreground-1 (ui) and
\* --calcite-color-foreground-1 (color).
Elements == [ui : StyleValues, color : StyleValues]

\* The chain from the anchor (index 1) upward: el.parentElement is the next
\* index, the last but one is doc.body, the last is the document element,
\* whose parentElement is null (0).
Chains == UNION {[1 .. n -> Elements] : n \in 3 .. MaxDepth}
PlainChain == [i \in 1 .. 3 |-> [ui |-> NoDecl, color |-> NoDecl]]
parentElement(chain, el) == IF el < Len(chain) THEN el + 1 ELSE 0
body(chain) == Len(chain) - 1

\* getComputedStyle(el).getPropertyValue(name): custom properties inherit, so
\* the value is that of the nearest declaration at or above el, "" when none
RECURSIVE getPropertyValue(_, _, _)
getPropertyValue(chain, el, name) ==
    IF chain[el][name].has THEN chain[el][name].text
    ELSE IF parentElement(chain, el) = 0 THEN <<>>
    ELSE getPropertyValue(chain, parentElement(chain, el), name)

\* String.prototype.trim over the texts used here
RECURSIVE trim(_)
trim(t) ==
    IF t = <<>> THEN <<>>
    ELSE IF Head(t) = " " THEN trim(Tail(t))
    ELSE IF t[Len(t)] = " " THEN trim(SubSeq(t, 1, Len(t) - 1))
    ELSE t

\* fg = getPropertyValue(ui) || getPropertyValue(color)
fg(chain, el) ==
    LET a == getPropertyValue(chain, el, "ui")
    IN IF a # <<>> THEN a ELSE getPropertyValue(chain, el, "color")

\* if (fg && fg.trim() !== "")
fgDefined(chain, el) == fg(chain, el) # <<>> /\ trim(fg(chain, el)) # <<>>

\* before the ref callback has run: anchorEl and portalContainer are null
Unmounted(chain) ==
    [chain |-> chain, anchorEl |-> 0, el |-> 0, found |-> 0,
     portalContainer |-> 0, pc |-> "idle"]

\* the ref callback stores the wrapper; the effect starts: el = anchorEl
SetAnchorEl ==
    /\ portal.pc = "idle"
    /\ portal.anchorEl = 0
    /\ portal' = [portal EXCEPT !.anchorEl = 1, !.el = 1, !.found = 0,
                                !.pc = "walk"]
    /\ UNCHANGED widgetVars

\* one turn of while (el) that ends at: found = el; break
WalkFound ==
    /\ portal.pc = "walk"
    /\ portal.el # 0
    /\ fgDefined(portal.chain, portal.el)
    /\ portal' = [portal EXCEPT !.found = portal.el, !.pc = "set"]
    /\ UNCHANGED widgetVars

\* one turn of while (el) that ends at: el = el.parentElement
WalkUp ==
    /\ portal.pc = "walk"
    /\ portal.el # 0
    /\ ~fgDefined(portal.chain, portal.el)
    /\ portal' = [portal EXCEPT
                    !.el = parentElement(portal.chain, portal.el),
                    !.pc = IF parentElement(portal.chain, portal.el) = 0
                           THEN "set" ELSE "walk"]
    /\ UNCHANGED widgetVars

\* setPortalContainer(found ?? doc.body)
SetPortalContainer ==
    /\ portal.pc = "set"
    /\ portal' = [portal EXCEPT
                    !.portalContainer = IF portal.found # 0 THEN portal.found
                                        ELSE body(portal.chain),
                    !.pc = "done"]
    /\ UNCHANGED widgetVars

\* the ref callback runs with null; the effect returns at if (!anchorEl)
ClearAnchorEl ==
    /\ portal.pc = "done"
    /\ portal' = [portal EXCEPT !.anchorEl = 0, !.pc = "idle"]
    /\ UNCHANGED widgetVars

(* ------------------- one render and its handlers ----------------------- *)

\* The state a handler works on: r is the state of the last render, which
\* the handler's closures read; p is r with the updates queued so far.
Rendered ==
    [value |-> value, open |-> open, input |-> input, focused |-> focused,
     inputPristine |-> inputPristine, ev |-> <<>>, proposed |-> <<>>]

\* the hook's controlled value
uaValue(r) == hookValue(r.value, props.multiple)

\* emit(name, payload): raiseEvent?.(name, payload)
emit(p, name, payload) ==
    [p EXCEPT !.ev = Append(@, [name |-> name, payload |-> payload])]

\* onChange that also closes the popup by itself
onChange_closing(r, p, newVal) ==
    LET out == newVal
        p1 == [p EXCEPT !.value = out, !.proposed = Append(@, out)]
        p2 == emit(p1, "change", out)
    IN [p2 EXCEPT !.input = <<>>, !.open = FALSE]

\* onChange that raises `change` twice
onChange_twice(r, p, newVal) ==
    LET out == newVal
        p1 == [p EXCEPT !.value = out, !.proposed = Append(@, out)]
        p2 == emit(emit(p1, "change", out), "change", out)
    IN [p2 EXCEPT !.input = <<>>]

\* onChange passed to the hook: setValue(out); emit("change"); setInput("")
onChange(r, p, newVal) ==
    LET out == newVal
        p1 == [p EXCEPT !.value = out, !.proposed = Append(@, out)]
        p2 == emit(p1, "change", out)
    IN [p2 EXCEPT !.input = <<>>]

\* onInputChange that takes the text without raising `input`
onInputChange_silent(r, p, newInput) == [p EXCEPT !.input = newInput]

\* onInputChange passed to the hook: setInput(newInput); emit("input")
onInputChange(r, p, newInput) ==
    emit([p EXCEPT !.input = newInput], "input", newInput)

\* onOpen passed to the hook: setOpen(true); emit("open", { input })
onOpen(r, p) == emit([p EXCEPT !.open = TRUE], "open", r.input)

\* onClose passed to the hook: setOpen(false); emit("close", { input })
onClose(r, p) == emit([p EXCEPT !.open = FALSE], "close", r.input)

\* onClickInput: if (!disabled && !readOnly) setOpen(true)
\* onClickInput that leaves the popup as the hook left it
onClickInput_none(r, p) == p

onClickInput(r, p) ==
    IF ~props.disabled /\ ~props.readOnly THEN [p EXCEPT !.open = TRUE] ELSE p

(* --------------- the hook, as configured at lines 582-610 -------------- *)

\* popupOpen = open && !readOnly
popupOpen(r) == r.open /\ ~props.readOnly

inputValueIsSelectedValue(r) ==
    /\ ~props.multiple
    /\ uaValue(r) # Null
    /\ r.input = getOptionLabel(uaValue(r).items[1])

\* the default filterOptions: case-insensitive substring match on the label
defaultFilterOptions(opts, inputValue) ==
    SelectSeq(opts, LAMBDA o :
        Contains(toLowerCase(getOptionLabel(o)), toLowerCase(inputValue)))

\* groupedOptions (no groupBy): the filtered options while the popup is open
groupedOptions(r) ==
    IF popupOpen(r)
    THEN defaultFilterOptions(options,
             IF inputValueIsSelectedValue(r) /\ r.inputPristine
             THEN <<>> ELSE r.input)
    ELSE <<>>

\* resetInputValue(event, newValue)
resetInputValue(r, p, newValue) ==
    LET isOptionSelected ==
            IF props.multiple
            THEN Len(uaValue(r).items) < Len(newValue.items)
            ELSE newValue # Null
        newInputValue ==
            IF props.multiple \/ newValue = Null THEN <<>>
            ELSE getOptionLabel(newValue.items[1])
    IN IF ~isOptionSelected /\ ~clearOnBlur THEN p
       ELSE IF r.input = newInputValue THEN p
       ELSE onInputChange(r, p, newInputValue)

\* handleValue(event, newValue, reason): no call of onChange for an equal value
handleValue(r, p, newValue) ==
    IF uaValue(r) = newValue THEN p ELSE onChange(r, p, newValue)

\* handleOpen(event)
handleOpen(r, p) ==
    IF r.open THEN p ELSE onOpen(r, [p EXCEPT !.inputPristine = TRUE])

\* handleClose(event, reason)
handleClose(r, p) ==
    IF ~r.open THEN p ELSE onClose(r, p)

IndexOf(s, x) ==
    IF \E i \in DOMAIN s : s[i] = x
    THEN CHOOSE i \in DOMAIN s : s[i] = x /\ \A j \in 1 .. (i - 1) : s[j] # x
    ELSE 0

RemoveAt(s, i) == SubSeq(s, 1, i - 1) \o SubSeq(s, i + 1, Len(s))

\* selectNewValue that never closes the popup (as under disableCloseOnSelect)
selectNewValue_noClose(r, p, option, freeSoloOrigin, ctrlKey) ==
    LET cur == uaValue(r).items
        k == IndexOf(cur, option)
        newValue ==
            IF props.multiple
            THEN IF k = 0 THEN Arr(Append(cur, option))
                 ELSE IF ~freeSoloOrigin THEN Arr(RemoveAt(cur, k))
                 ELSE Arr(cur)
            ELSE Scalar(option)
        p1 == resetInputValue(r, p, newValue)
    IN handleValue(r, p1, newValue)

\* selectNewValue that puts a new option in front of the selection
selectNewValue_prepend(r, p, option, freeSoloOrigin, ctrlKey) ==
    LET cur == uaValue(r).items
        k == IndexOf(cur, option)
        newValue ==
            IF props.multiple
            THEN IF k = 0 THEN Arr(<<option>> \o cur)
                 ELSE IF ~freeSoloOrigin THEN Arr(RemoveAt(cur, k))
                 ELSE Arr(cur)
            ELSE Scalar(option)
        p1 == resetInputValue(r, p, newValue)
        p2 == handleValue(r, p1, newValue)
    IN IF ~ctrlKey THEN handleClose(r, p2) ELSE p2

\* selectNewValue(event, option, reason, origin); the hook is configured
\* without disableCloseOnSelect, so the popup is closed unless Ctrl/Meta is held
selectNewValue(r, p, option, freeSoloOrigin, ctrlKey) ==
    LET cur == uaValue(r).items
        k == IndexOf(cur, option)
        newValue ==
            IF props.multiple
            THEN IF k = 0 THEN Arr(Append(cur, option))
                 ELSE IF ~freeSoloOrigin THEN Arr(RemoveAt(cur, k))
                 ELSE Arr(cur)
            ELSE Scalar(option)
        p1 == resetInputValue(r, p, newValue)
        p2 == handleValue(r, p1, newValue)
    IN IF ~ctrlKey THEN handleClose(r, p2) ELSE p2

\* handleFocus (the hook gets no openOnFocus) followed by the element's own
\* onFocus: if (openOnFocus && !open) setOpen(true)
onFocus(r, p) ==
    LET p1 == [p EXCEPT !.focused = TRUE]
    IN IF props.openOnFocus /\ ~r.open THEN [p1 EXCEPT !.open = TRUE] ELSE p1

\* handleClick on the root: inputRef.current.focus(); a disabled input does
\* not take focus, a focused one raises no second focus event
handleClick(r, p) ==
    IF ~r.focused /\ ~readOnlyOrDisabled THEN onFocus(r, p) ELSE p

\* handleBlur(event)
handleBlur(r, p) ==
    LET p1 == [p EXCEPT !.focused = FALSE]
        p2 == IF clearOnBlur THEN resetInputValue(r, p1, uaValue(r)) ELSE p1
    IN handleClose(r, p2)

\* handleInputMouseDown(event): toggles the popup
handleInputMouseDown(r, p) ==
    IF ~props.disabled /\ (r.input = <<>> \/ ~r.open)
    THEN (IF r.open THEN handleClose(r, p) ELSE handleOpen(r, p))
    ELSE p

\* handleInputChange(event) followed by the element's setInput(e.target.value)
onInputElementChange(r, p, newValue) ==
    LET p1 == IF r.input # newValue
              THEN onInputChange(r, [p EXCEPT !.inputPristine = FALSE], newValue)
              ELSE p
        p2 == IF newValue = <<>>
              THEN (IF ~props.multiple THEN handleValue(r, p1, Null) ELSE p1)
              ELSE handleOpen(r, p1)
    IN [p2 EXCEPT !.input = newValue]

\* handleTagDelete(index)
handleTagDelete(r, p, index) ==
    handleValue(r, p, Arr(RemoveAt(uaValue(r).items, index)))

\* the clear button's onClick without its setInput("")
onClearClick_keepInput(r, p) ==
    LET cleared == IF props.multiple THEN Arr(<<>>) ELSE Null
        p1 == [p EXCEPT !.value = cleared, !.proposed = Append(@, cleared)]
    IN emit(emit(p1, "clear", cleared), "change", cleared)

\* the clear button's onClick raising `clear` alone
onClearClick_noChange(r, p) ==
    LET cleared == IF props.multiple THEN Arr(<<>>) ELSE Null
        p1 == [p EXCEPT !.value = cleared, !.proposed = Append(@, cleared),
                        !.input = <<>>]
    IN emit(p1, "clear", cleared)

\* the clear button's onClick with the two events raised in the other order
onClearClick_changeFirst(r, p) ==
    LET cleared == IF props.multiple THEN Arr(<<>>) ELSE Null
        p1 == [p EXCEPT !.value = cleared, !.proposed = Append(@, cleared),
                        !.input = <<>>]
    IN emit(emit(p1, "change", cleared), "clear", cleared)

\* the clear button's onClick
onClearClick(r, p) ==
    LET cleared == IF props.multiple THEN Arr(<<>>) ELSE Null
        p1 == [p EXCEPT !.value = cleared, !.proposed = Append(@, cleared),
                        !.input = <<>>]
    IN emit(emit(p1, "clear", cleared), "change", cleared)

\* the Enter case committing the typed text whether or not freeSolo is set
onKeyEnter_alwaysFree(r, p, highlighted, ctrlKey) ==
    IF highlighted # 0 /\ popupOpen(r)
    THEN selectNewValue(r, p, groupedOptions(r)[highlighted], FALSE, ctrlKey)
    ELSE IF r.input # <<>> /\ ~inputValueIsSelectedValue(r)
    THEN selectNewValue(r, p, Str(r.input), TRUE, ctrlKey)
    ELSE p

\* the Enter case committing the first option instead of the typed text
onKeyEnter_firstOption(r, p, highlighted, ctrlKey) ==
    IF highlighted # 0 /\ popupOpen(r)
    THEN selectNewValue(r, p, groupedOptions(r)[highlighted], FALSE, ctrlKey)
    ELSE IF props.freeSolo /\ r.input # <<>> /\ ~inputValueIsSelectedValue(r)
    THEN selectNewValue(r, p, options[1], TRUE, ctrlKey)
    ELSE p

\* handleKeyDown, case 'Enter'; highlighted = 0 stands for index -1
onKeyEnter(r, p, highlighted, ctrlKey) ==
    IF highlighted # 0 /\ popupOpen(r)
    THEN selectNewValue(r, p, groupedOptions(r)[highlighted], FALSE, ctrlKey)
    ELSE IF props.freeSolo /\ r.input # <<>> /\ ~inputValueIsSelectedValue(r)
    THEN selectNewValue(r, p, Str(r.input), TRUE, ctrlKey)
    ELSE p

\* handleKeyDown, case 'Escape' (clearOnEscape is not set)
onKeyEscape(r, p) == IF popupOpen(r) THEN handleClose(r, p) ELSE p

\* handleKeyDown, case 'Backspace' on an empty input
onKeyBackspace(r, p) ==
    IF props.multiple /\ ~props.readOnly /\ r.input = <<>>
       /\ Len(uaValue(r).items) > 0
    THEN handleTagDelete(r, p, Len(uaValue(r).items))
    ELSE p

\* The hook's effect that runs after a render: it resets the input text to
\* the label of the value when the value changed, or when the input has no
\* focus and freeSolo is off.  prev is the render before.
syncInputEffect(prev, cur) ==
    LET valueChange ==
            \/ uaValue(prev) # uaValue(cur)
            \/ props.multiple /\ Len(cur.proposed) > Len(prev.proposed)
    IN IF cur.focused /\ ~valueChange THEN cur
       ELSE IF props.freeSolo /\ ~valueChange THEN cur
       ELSE resetInputValue(cur, cur, uaValue(cur))

\* The render after mounting: the effect sees no previous value.
Mounted(r) == resetInputValue(r, r, uaValue(r))

(* ------------------------------ gestures ------------------------------- *)

\* the render that follows a DOM event: the queued updates, then the effect
After(prev, p) == syncInputEffect(prev, p)

NoOption == Str(<<>>)

Act(name, option, text, index, ctrlKey) ==
    [name |-> name, option |-> option, text |-> text, index |-> index,
     ctrlKey |-> ctrlKey]

Commit(n, act) ==
    /\ Len(n.value.items) <= MaxSel \/ Len(n.value.items) <= Len(value.items)
    /\ value' = n.value
    /\ open' = n.open
    /\ input' = n.input
    /\ focused' = n.focused
    /\ inputPristine' = n.inputPristine
    /\ emitted' = n.ev
    /\ proposed' = n.proposed
    /\ lastAct' = act
    /\ UNCHANGED <<props, portal>>

Init ==
    /\ props \in PropsSet
    /\ value \in HostValues
    /\ open = FALSE
    /\ focused = FALSE
    /\ inputPristine = TRUE
    /\ LET r == [value |-> value, open |-> FALSE, input |-> <<>>,
                 focused |-> FALSE, inputPristine |-> TRUE, ev |-> <<>>,
                 proposed |-> <<>>]
       IN /\ input = Mounted(r).input
          /\ emitted = Mounted(r).ev
    /\ proposed = <<>>
    /\ lastAct = Act("mount", NoOption, <<>>, 0, FALSE)
    /\ portal = Unmounted(PlainChain)

\* a mouse click on the input: mousedown, focus when it had none, click
ClickInput ==
    /\ ~readOnlyOrDisabled
    /\ LET s1 == After(Rendered, handleInputMouseDown(Rendered, Rendered))
           s2 == IF ~s1.focused THEN After(s1, onFocus(s1, s1)) ELSE s1
           s3 == After(s2, onClickInput(s2, s2))
       IN Commit(s3, Act("ClickInput", NoOption, <<>>, 0, FALSE))

\* focus reaches the input from the keyboard
FocusInput ==
    /\ ~readOnlyOrDisabled
    /\ ~focused
    /\ Commit(After(Rendered, onFocus(Rendered, Rendered)),
              Act("FocusInput", NoOption, <<>>, 0, FALSE))

\* focus leaves the input
BlurInput ==
    /\ focused
    /\ Commit(After(Rendered, handleBlur(Rendered, Rendered)),
              Act("BlurInput", NoOption, <<>>, 0, FALSE))

\* typing leaves text t in the input box
TypeText(t) ==
    /\ ~readOnlyOrDisabled
    /\ focused
    /\ t # input
    /\ Commit(After(Rendered, onInputElementChange(Rendered, Rendered, t)),
              Act("TypeText", NoOption, t, 0, FALSE))

\* the row of groupedOptions[i] is clicked in the open listbox; the click
\* bubbles to the root's handleClick
ClickOption(i, ctrlKey) ==
    /\ open
    /\ i \in 1 .. Len(groupedOptions(Rendered))
    /\ LET o == groupedOptions(Rendered)[i]
           p1 == selectNewValue(Rendered, Rendered, o, FALSE, ctrlKey)
       IN Commit(After(Rendered, handleClick(Rendered, p1)),
                 Act("ClickOption", o, <<>>, i, ctrlKey))

\* Enter with option h of the listbox highlighted (0: none highlighted)
KeyEnter(h, ctrlKey) ==
    /\ ~readOnlyOrDisabled
    /\ focused
    /\ h \in 0 .. Len(groupedOptions(Rendered))
    /\ Commit(After(Rendered, onKeyEnter(Rendered, Rendered, h, ctrlKey)),
              Act("KeyEnter",
                  IF h = 0 THEN NoOption ELSE groupedOptions(Rendered)[h],
                  input, h, ctrlKey))

KeyEscape ==
    /\ ~readOnlyOrDisabled
    /\ focused
    /\ Commit(After(Rendered, onKeyEscape(Rendered, Rendered)),
              Act("KeyEscape", NoOption, <<>>, 0, FALSE))

\* handleKeyDown, case 'ArrowDown': handleOpen(event)
KeyArrowDown ==
    /\ ~readOnlyOrDisabled
    /\ focused
    /\ Commit(After(Rendered, handleOpen(Rendered, Rendered)),
              Act("KeyArrowDown", NoOption, <<>>, 0, FALSE))

KeyBackspace ==
    /\ ~readOnlyOrDisabled
    /\ focused
    /\ input = <<>>
    /\ Commit(After(Rendered, onKeyBackspace(Rendered, Rendered)),
              Act("KeyBackspace", NoOption, <<>>, 0, FALSE))

\* the removal control of chip number index is clicked
ClickTagDelete(index) ==
    /\ tagDeleteRendered
    /\ index \in 1 .. Len(uaValue(Rendered).items)
    /\ LET p1 == handleTagDelete(Rendered, Rendered, index)
       IN Commit(After(Rendered, handleClick(Rendered, p1)),
                 Act("ClickTagDelete", uaValue(Rendered).items[index], <<>>,
                     index, FALSE))

\* the clear button is clicked
ClickClear ==
    /\ clearButtonRendered
    /\ LET p1 == onClearClick(Rendered, Rendered)
       IN Commit(After(Rendered, handleClick(Rendered, p1)),
                 Act("ClickClear", NoOption, <<>>, 0, FALSE))

\* a click on the root outside the input and the buttons (label, chip text,
\* padding): only the root's handleClick runs
ClickRoot ==
    /\ LET p1 == handleClick(Rendered, Rendered)
       IN Commit(After(Rendered, p1),
                 Act("ClickRoot", NoOption, <<>>, 0, FALSE))

Next ==
    \/ ClickRoot
    \/ ClickInput
    \/ FocusInput
    \/ BlurInput
    \/ \E t \in TypedTexts : TypeText(t)
    \/ \E i \in 1 .. Len(options), c \in BOOLEAN : ClickOption(i, c)
    \/ \E h \in 0 .. Len(options), c \in BOOLEAN : KeyEnter(h, c)
    \/ KeyEscape
    \/ KeyArrowDown
    \/ KeyBackspace
    \/ \E i \in 1 .. (MaxSel + 1) : ClickTagDelete(i)
    \/ ClickClear

Spec == Init /\ [][Next]_vars

\* The portal-container effect on its own: a widget with every flag off and
\* no value, mounted under any chain of ancestors.
InitPortal ==
    /\ props = [multiple |-> FALSE, freeSolo |-> FALSE, openOnFocus |-> FALSE,
                clearable |-> FALSE, disabled |-> FALSE, readOnly |-> FALSE,
                clearOnBlur |-> "unset"]
    /\ value = Null
    /\ open = FALSE
    /\ input = <<>>
    /\ focused = FALSE
    /\ inputPristine = TRUE
    /\ emitted = <<>>
    /\ proposed = <<>>
    /\ lastAct = Act("mount", NoOption, <<>>, 0, FALSE)
    /\ portal \in {Unmounted(c) : c \in Chains}

NextPortal ==
    \/ SetAnchorEl
    \/ WalkFound
    \/ WalkUp
    \/ SetPortalContainer
    \/ ClearAnchorEl

SpecPortal == InitPortal /\ [][NextPortal]_vars

(* ------------------------------ properties ----------------------------- *)

Event(name, payload) == [name |-> name, payload |-> payload]

\* the events of one name among seq, in order
EventsNamed(seq, name) == SelectSeq(seq, LAMBDA e : e.name = name)

\* C1: whatever shape the host hands in, the value the adapter gives the hook
\* is an array when multiple is set and a scalar or null (not an array, at
\* most one element) when it is not.
Thm_C1 ==
    /\ IsArray(uaValue(Rendered)) = props.multiple
    /\ ~props.multiple => Len(uaValue(Rendered).items) <= 1

\* a stray scalar handed in under multiple
Wit_C1 ==
    /\ props.multiple
    /\ ~IsArray(value)
    /\ value # Null
    /\ IsArray(uaValue(Rendered))

\* C2: the adapter keeps the content: in single mode an array is narrowed to
\* its first element (null when empty) and a scalar or null is unchanged; in
\* multi mode an array is unchanged, null becomes the empty array and a scalar
\* v becomes the one-element array of v.
Thm_C2 ==
    LET out == uaValue(Rendered)
    IN IF props.multiple
       THEN /\ IsArray(value) => out = value
            /\ value = Null => out = Arr(<<>>)
            /\ (~IsArray(value) /\ value # Null) => out = Arr(<<Head(value.items)>>)
       ELSE /\ (IsArray(value) /\ value.items # <<>>) => out = Scalar(Head(value.items))
            /\ (IsArray(value) /\ value.items = <<>>) => out = Null
            /\ ~IsArray(value) => out = value

\* a stray array of two different elements handed in under single mode
Wit_C2 ==
    /\ ~props.multiple
    /\ IsArray(value)
    /\ Len(value.items) = 2
    /\ value.items[1] # value.items[2]
    /\ uaValue(Rendered) = Scalar(value.items[1])

\* C3: the clear button raises exactly `clear` and then `change`, nothing
\* before, between or after them, both carrying null (single) or the empty
\* array (multiple).
Thm_C3 ==
    lastAct.name = "ClickClear" =>
        LET cleared == IF props.multiple THEN Arr(<<>>) ELSE Null
        IN emitted = <<Event("clear", cleared), Event("change", cleared)>>

\* the clear button used in multi mode, leaving the empty selection
Wit_C3 ==
    /\ lastAct.name = "ClickClear"
    /\ props.multiple
    /\ Len(emitted) = 2
    /\ emitted[1].name = "clear"
    /\ emitted[2].name = "change"
    /\ value = Arr(<<>>)

\* the gesture picks a row of the open listbox, by a click or by Enter on the
\* highlighted row
SelectsFromList(act) ==
    \/ act.name = "ClickOption"
    \/ act.name = "KeyEnter" /\ act.index # 0

\* C4 as stated: in single mode with the popup open, selecting an enabled
\* option closes the popup and raises exactly one `change`, carrying the option.
Orig_C4 ==
    [][(/\ ~props.multiple
        /\ open
        /\ SelectsFromList(lastAct')
        /\ ~getOptionDisabled(lastAct'.option))
       => (/\ ~open'
           /\ EventsNamed(emitted', "change")
                = <<Event("change", Scalar(lastAct'.option))>>)]_vars

\* C4 amended: in single mode with the popup open, selecting, without Ctrl or
\* Meta held, an enabled option that is not already the value closes the popup
\* and raises exactly one `change`, carrying the option and proposing it to
\* the host.
Thm_C4 ==
    [][(/\ ~props.multiple
        /\ open
        /\ SelectsFromList(lastAct')
        /\ ~lastAct'.ctrlKey
        /\ ~getOptionDisabled(lastAct'.option)
        /\ uaValue(Rendered) # Scalar(lastAct'.option))
       => (/\ ~open'
           /\ EventsNamed(emitted', "change")
                = <<Event("change", Scalar(lastAct'.option))>>
           /\ proposed' = <<Scalar(lastAct'.option)>>)]_vars

\* a single-mode pick of Bridge that replaced another value and closed the popup
Wit_C4 ==
    /\ ~props.multiple
    /\ lastAct.name = "ClickOption"
    /\ ~lastAct.ctrlKey
    /\ lastAct.option = Str(Bridge)
    /\ ~open
    /\ proposed = <<Scalar(Str(Bridge))>>
    /\ Len(EventsNamed(emitted, "change")) = 1

\* C5 as stated: in multi mode with the popup open, selecting an option leaves
\* the popup open and the input text empty.
Orig_C5 ==
    [][(/\ props.multiple
        /\ open
        /\ SelectsFromList(lastAct'))
       => (open' /\ input' = <<>>)]_vars

\* C5 amended: in multi mode with the popup open, selecting an option leaves
\* the input text empty and closes the popup, raising one `close`; the popup
\* stays open only when Ctrl or Meta is held during the selection.
Thm_C5 ==
    [][(/\ props.multiple
        /\ open
        /\ SelectsFromList(lastAct'))
       => (/\ input' = <<>>
           /\ open' = lastAct'.ctrlKey
           /\ Len(EventsNamed(emitted', "close"))
                = (IF lastAct'.ctrlKey THEN 0 ELSE 1))]_vars

\* a multi-mode pick that appended to the selection and closed the popup
Wit_C5 ==
    /\ props.multiple
    /\ lastAct.name = "ClickOption"
    /\ ~lastAct.ctrlKey
    /\ Len(value.items) = 2
    /\ value.items[2] = lastAct.option
    /\ ~open
    /\ input = <<>>
    /\ Len(EventsNamed(emitted, "close")) = 1

\* C6: clicking an option the caller's getOptionDisabled disables never calls
\* setValue and never raises `change`.
Orig_C6 ==
    (lastAct.name = "ClickOption" /\ getOptionDisabled(lastAct.option))
        => (proposed = <<>> /\ EventsNamed(emitted, "change") = <<>>)

\* C7 as stated: with freeSolo, Enter on a non-empty text t equal to no option
\* raises `change` carrying t (single: t, multi: the selection with t appended).
Orig_C7 ==
    [][(/\ props.freeSolo
        /\ lastAct'.name = "KeyEnter"
        /\ input # <<>>
        /\ \A i \in DOMAIN options : options[i] # Str(input))
       => EventsNamed(emitted', "change")
            = <<Event("change",
                      IF props.multiple
                      THEN Arr(Append(uaValue(Rendered).items, Str(input)))
                      ELSE Scalar(Str(input)))>>]_vars

\* C7 amended: with freeSolo, Enter with no listbox row highlighted on a
\* non-empty text t equal to no option, t being neither the text of the
\* current value (single) nor already in the selection (multi), raises exactly
\* one `change` carrying t (single: t, multi: the selection with t appended)
\* and proposes that value to the host through onChange.
Thm_C7 ==
    [][(/\ props.freeSolo
        /\ lastAct'.name = "KeyEnter"
        /\ lastAct'.index = 0
        /\ input # <<>>
        /\ \A i \in DOMAIN options : options[i] # Str(input)
        /\ ~inputValueIsSelectedValue(Rendered)
        /\ IndexOf(uaValue(Rendered).items, Str(input)) = 0)
       => LET out == IF props.multiple
                     THEN Arr(Append(uaValue(Rendered).items, Str(input)))
                     ELSE Scalar(Str(input))
          IN /\ EventsNamed(emitted', "change") = <<Event("change", out)>>
             /\ proposed' = <<out>>
             /\ value' = out]_vars

\* a free text matching no option committed by Enter in multi mode
Wit_C7 ==
    /\ props.freeSolo
    /\ props.multiple
    /\ lastAct.name = "KeyEnter"
    /\ lastAct.index = 0
    /\ lastAct.text = Seven
    /\ defaultFilterOptions(options, lastAct.text) = <<>>
    /\ Len(value.items) = 2
    /\ value.items[2] = Str(Seven)
    /\ EventsNamed(emitted, "change") = <<Event("change", value)>>

\* C8: without freeSolo, typing that leaves a non-empty text matching no
\* option, and Enter pressed on such a text (no row is highlighted then),
\* neither call setValue nor raise `change`.
Thm_C8 ==
    (/\ ~props.freeSolo
     /\ \/ lastAct.name = "TypeText"
        \/ lastAct.name = "KeyEnter" /\ lastAct.index = 0
     /\ lastAct.text # <<>>
     /\ defaultFilterOptions(options, lastAct.text) = <<>>)
        => (proposed = <<>> /\ EventsNamed(emitted, "change") = <<>>)

\* Enter pressed on a typed text that matches no option, freeSolo off
Wit_C8 ==
    /\ ~props.freeSolo
    /\ lastAct.name = "KeyEnter"
    /\ lastAct.index = 0
    /\ lastAct.text = Seven
    /\ input = Seven
    /\ value # Scalar(Num(Seven))
    /\ proposed = <<>>

\* C9: in multi mode, selecting an option not yet selected appends it at the
\* end of the value, and a chip's removal control removes exactly the element
\* at the chip's position, the others keeping their order.
Thm_C9 ==
    [][/\ (/\ props.multiple
           /\ SelectsFromList(lastAct')
           /\ IndexOf(uaValue(Rendered).items, lastAct'.option) = 0)
          => value' = Arr(Append(uaValue(Rendered).items, lastAct'.option))
       /\ (props.multiple /\ lastAct'.name = "ClickTagDelete")
          => value' = Arr(RemoveAt(uaValue(Rendered).items, lastAct'.index))]_vars

\* the Bridge chip removed from the selection [Bridge, Road], leaving [Road]
Wit_C9 ==
    /\ props.multiple
    /\ lastAct.name = "ClickTagDelete"
    /\ lastAct.option = Str(Bridge)
    /\ lastAct.index = 1
    /\ value = Arr(<<Str(Road)>>)
    /\ proposed = <<Arr(<<Str(Road)>>)>>

\* C10: every change of OpenState from closed to open raises exactly one
\* `open` and every change from open to closed exactly one `close`.
Orig_C10 ==
    [][/\ (~open /\ open') => Len(EventsNamed(emitted', "open")) = 1
       /\ (open /\ ~open') => Len(EventsNamed(emitted', "close")) = 1]_vars

\* the payloads of the events of seq, in order
Payloads(seq) == [i \in DOMAIN seq |-> seq[i].payload]

\* C11: the value changes only by a setValue call, and the `change` events of
\* a gesture are, one for one and in order, the values it handed to setValue;
\* the value afterwards is the last of them.
Thm_C11 ==
    [][/\ Payloads(EventsNamed(emitted', "change")) = proposed'
       /\ value' # value => proposed' # <<>>
       /\ proposed' # <<>> => value' = proposed'[Len(proposed')]]_vars

\* deleting the text of a single-mode value hands null to setValue, with one
\* `change` carrying null
Wit_C11 ==
    /\ lastAct.name = "TypeText"
    /\ lastAct.text = <<>>
    /\ proposed = <<Null>>
    /\ EventsNamed(emitted, "change") = <<Event("change", Null)>>
    /\ value = Null

\* C12 as stated: the input text changes only by the user's typing, by the
\* reset to empty after a selection commit, or by the clear button.
Orig_C12 ==
    [][input' # input =>
        \/ lastAct'.name = "TypeText" /\ input' = lastAct'.text
        \/ proposed' # <<>> /\ input' = <<>>]_vars

\* C12 amended: the input text changes only through the element's own setInput
\* calls: by typing, by the reset to empty after a commit or a clear, or by a
\* reset the hook asks for through onInputChange (after the value changed, on
\* blur), which raises an `input` event carrying the text the input then holds.
Thm_C12 ==
    [][input' # input =>
        \/ lastAct'.name = "TypeText" /\ input' = lastAct'.text
        \/ proposed' # <<>> /\ input' = <<>>
        \/ /\ EventsNamed(emitted', "input") # <<>>
           /\ LET ins == EventsNamed(emitted', "input")
              IN ins[Len(ins)].payload = input']_vars

\* a blur on which the hook reset the typed text to the label of the value
Wit_C12 ==
    /\ lastAct.name = "BlurInput"
    /\ ~props.multiple
    /\ value = Scalar(Str(Bridge))
    /\ input = Bridge
    /\ EventsNamed(emitted, "input") = <<Event("input", Bridge)>>

Thm_C14 ==
    [][(props.disabled \/ props.readOnly) =>
        /\ EventsNamed(emitted', "clear") = <<>>
        /\ lastAct'.name \notin {"ClickClear", "ClickTagDelete", "KeyBackspace"}
        /\ value' = value]_vars

\* a read-only, clearable multi-select with two chips has just been clicked
Wit_C14 ==
    /\ props.readOnly
    /\ props.clearable
    /\ props.multiple
    /\ Len(value.items) = 2
    /\ lastAct.name = "ClickRoot"

\* C16: after a click on the clear button the value is empty (null in single
\* mode, the empty array in multi mode, so no chip is rendered) and the input
\* text is empty.
Thm_C16 ==
    lastAct.name = "ClickClear" =>
        /\ value = (IF props.multiple THEN Arr(<<>>) ELSE Null)
        /\ uaValue(Rendered).items = <<>>
        /\ input = <<>>

\* the clear button emptied a free-solo field that held a value and whose
\* text the hook does not reset
Wit_C16 ==
    /\ lastAct.name = "ClickClear"
    /\ proposed # <<>>
    /\ props.freeSolo
    /\ ~clearOnBlur
    /\ value = Null
    /\ input = <<>>

\* C17: after a click on the input of a widget that is neither disabled nor
\* readOnly the popup is open.
Thm_C17 ==
    (lastAct.name = "ClickInput" /\ ~props.disabled /\ ~props.readOnly) => open

\* the hook's mouse-down closed the open popup and the click opened it again
Wit_C17 ==
    /\ lastAct.name = "ClickInput"
    /\ open
    /\ Len(EventsNamed(emitted, "close")) = 1

\* C20: while disabled or readOnly holds the popup is closed, and no gesture
\* hands a value to setValue, raises `change` or any other event, moves focus
\* into the input or changes the value.
Thm_C20 ==
    [][(props.disabled \/ props.readOnly) =>
        /\ ~open'
        /\ proposed' = <<>>
        /\ emitted' = <<>>
        /\ ~focused'
        /\ value' = value]_vars

\* a disabled widget with openOnFocus has just been clicked
Wit_C20 ==
    /\ props.disabled
    /\ props.openOnFocus
    /\ lastAct.name = "ClickRoot"
    /\ ~open

\* C15 as stated: a gesture raises `input` exactly when it is typing, then
\* exactly once with the typed text, which the input holds afterwards; no
\* other gesture raises `input`.
Orig_C15 ==
    [][/\ lastAct'.name = "TypeText" =>
            /\ EventsNamed(emitted', "input") = <<Event("input", lastAct'.text)>>
            /\ input' = lastAct'.text
       /\ lastAct'.name # "TypeText" =>
            EventsNamed(emitted', "input") = <<>>]_vars

\* C18 as stated: an `open` or `close` event carries the input text as it
\* stands when the event is raised: the typed text when typing opens the
\* popup, the emptied text when a selection commit closes it, and the text of
\* the gesture's start when the gesture does not change the text before.
Orig_C18 ==
    [][\A i \in DOMAIN emitted' :
        emitted'[i].name \in {"open", "close"} =>
            emitted'[i].payload =
                IF lastAct'.name = "TypeText" THEN lastAct'.text
                ELSE IF \E j \in 1 .. (i - 1) : emitted'[j].name = "change"
                THEN <<>>
                ELSE input]_vars

\* the element the claim of C19 names: the nearest element of the chain that
\* declares one of the two properties with a non-blank text, else doc.body
RECURSIVE nearestDefining(_, _)
nearestDefining(chain, el) ==
    IF el = 0 THEN body(chain)
    ELSE IF \/ chain[el].ui.has /\ trim(chain[el].ui.text) # <<>>
            \/ chain[el].color.has /\ trim(chain[el].color.text) # <<>>
    THEN el
    ELSE nearestDefining(chain, parentElement(chain, el))

\* C19 as stated: once the effect has run for an anchor, the portal container
\* is the nearest element from the anchor upward that defines one of the two
\* theming properties with a non-blank value, and doc.body when none does.
Orig_C19 ==
    portal.pc = "done" =>
        portal.portalContainer = nearestDefining(portal.chain, portal.anchorEl)

====
